---- MODULE Spec2Model ----
(***************************************************************************)
(* Model of backend/satellite_apis.py: six HTTP endpoints that are a       *)
(* client of an external geospatial service.                               *)
(*                                                                         *)
(*   SpecGrid   create_grid_tiles applied to bounded boxes and tile sizes  *)
(*   SpecDates  the 12-month window arithmetic (relativedelta)             *)
(*   SpecMosaic the monthly composite of the tile images, pixel by pixel   *)
(*   Spec       one request to one of the six endpoints: validation, the   *)
(*              worker pool, the sequential fallback and the response      *)
(*                                                                         *)
(* Coordinates are integers (degrees); the Amazon box and its 5-degree     *)
(* step are integral, and binary floating point is exact on them.          *)
(***************************************************************************)
EXTENDS Integers, Sequences, FiniteSets, TLC

VARIABLES
    grid,        \* SpecGrid: the arguments of create_grid_tiles and its result
    dates,       \* SpecDates: now, start_date/end_date and the intervals so far
    mosaic,      \* SpecMosaic: the tile images of one month and their composite
    endpoint,    \* Spec: the endpoint class handling the request
    request,     \* Spec: request.data, a Python dict
    now,         \* Spec: datetime.now() of the request
    service,     \* Spec: what the external service answers, per run and month
    pc,          \* Spec: position of the request's main thread
    futures,     \* Spec: the pool's futures, one per submitted task
    layers,      \* Spec: monthly_layers as built so far
    fallback,    \* Spec: the loop index of the sequential fallback, and whether
                 \*       its process_month call is executing
    local,       \* Spec: local variables of a point endpoint's post()
    remote,      \* Spec: the remote calls issued so far (counts and a log)
    response     \* Spec: the Response returned, or NoResponse

vars == <<grid, dates, mosaic, endpoint, request, now, service, pc, futures, layers,
          fallback, local, remote, response>>

mainVars == <<endpoint, request, now, service, pc, futures, layers,
              fallback, local, remote, response>>

Min(a, b) == IF a < b THEN a ELSE b

Max(a, b) == IF a > b THEN a ELSE b

Abs(a) == IF a < 0 THEN -a ELSE a

(***************************************************************************)
(* create_grid_tiles                                                       *)
(***************************************************************************)

\* Largest absolute coordinate of the boxes SpecGrid draws.
MaxCoord == 2

\* Largest tile_size SpecGrid draws.
MaxTileSize == 3

\* tile_bounds: the ring of five vertices [lon, lat] of one tile.
tile_bounds(lon, lat, lon_step, lat_step) ==
    << <<lon, lat>>, <<lon, lat + lat_step>>,
       <<lon + lon_step, lat + lat_step>>, <<lon + lon_step, lat>>,
       <<lon, lat>> >>

\* A loop test that keeps only the tiles lying wholly inside the box.
WholeTilesOnly(x, max_x, step) == x + step <= max_x

\* The test of both while loops: the cell's lower edge is inside the box.
loop_test(x, max_x, step) == x < max_x

\* An inner loop that walks the latitudes from the top of the box downwards.
LatDescending(lon, lat, max_lat, lon_step, lat_step, tiles) ==
    LET n == IF max_lat <= lat THEN 0 ELSE (max_lat - lat + lat_step - 1) \div lat_step
    IN  tiles \o [i \in 1..n |->
                    tile_bounds(lon, lat + (n - i) * lat_step, lon_step, lat_step)]

RECURSIVE lat_loop(_, _, _, _, _, _)
\* The inner while loop: one tile per latitude step, appended to tiles.
lat_loop(lon, lat, max_lat, lon_step, lat_step, tiles) ==
    IF loop_test(lat, max_lat, lat_step)
    THEN lat_loop(lon, lat + lat_step, max_lat, lon_step, lat_step,
                  Append(tiles, tile_bounds(lon, lat, lon_step, lat_step)))
    ELSE tiles

RECURSIVE lon_loop(_, _, _, _, _, _, _)
\* The outer while loop: lat restarts at min_lat for every longitude step.
lon_loop(lon, max_lon, min_lat, max_lat, lon_step, lat_step, tiles) ==
    IF loop_test(lon, max_lon, lon_step)
    THEN lon_loop(lon + lon_step, max_lon, min_lat, max_lat, lon_step, lat_step,
                  lat_loop(lon, min_lat, max_lat, lon_step, lat_step, tiles))
    ELSE tiles

create_grid_tiles(min_lon, max_lon, min_lat, max_lat, tile_size) ==
    lon_loop(min_lon, max_lon, min_lat, max_lat, tile_size, tile_size, << >>)

\* grid_tiles of both Amazon endpoints.
grid_tiles == create_grid_tiles(-74, -34, -18, 12, 5)

\* The extent of a tile, read back from its ring of vertices.
West(t)  == Min(Min(t[1][1], t[2][1]), Min(t[3][1], t[4][1]))
East(t)  == Max(Max(t[1][1], t[2][1]), Max(t[3][1], t[4][1]))
South(t) == Min(Min(t[1][2], t[2][2]), Min(t[3][2], t[4][2]))
North(t) == Max(Max(t[1][2], t[2][2]), Max(t[3][2], t[4][2]))

Coords == (-MaxCoord)..MaxCoord

GridArgs ==
    { [min_lon |-> a, max_lon |-> b, min_lat |-> c, max_lat |-> d, tile_size |-> s] :
        a \in Coords, b \in Coords, c \in Coords, d \in Coords, s \in 1..MaxTileSize }

AmazonArgs ==
    [min_lon |-> -74, max_lon |-> -34, min_lat |-> -18, max_lat |-> 12, tile_size |-> 5]

GridIdle == [args |-> AmazonArgs, called |-> FALSE, tiles |-> << >>]

DatesIdle == [now |-> <<0, 0, 0>>, pc |-> "idle"]

\* The call create_grid_tiles(...) of get().
GridCall ==
    /\ ~grid.called
    /\ grid' = [grid EXCEPT !.called = TRUE,
                            !.tiles =
                   create_grid_tiles(grid.args.min_lon, grid.args.max_lon,
                                     grid.args.min_lat, grid.args.max_lat,
                                     grid.args.tile_size)]
    /\ UNCHANGED <<dates, mosaic, mainVars>>

(***************************************************************************)
(* The 12-month window: datetime.now(), relativedelta(months = n)          *)
(***************************************************************************)

\* SpecDates draws now from the years FirstYear .. FirstYear + YearSpan.
YearSpan == 3

Years == 2023..(2023 + YearSpan)

IsLeap(y) == (y % 4 = 0) /\ ((y % 100 # 0) \/ (y % 400 = 0))

\* calendar.monthrange(year, month)[1]
DaysInMonth(y, m) ==
    IF m = 2 THEN (IF IsLeap(y) THEN 29 ELSE 28)
    ELSE IF m \in {4, 6, 9, 11} THEN 30 ELSE 31

\* A date is <<year, month, day>>; strftime('%Y-%m-%d') keeps exactly these.
AllDates == { <<y, m, d>> : y \in Years, m \in 1..12, d \in 1..31 }

ValidDates == { dt \in AllDates : dt[3] <= DaysInMonth(dt[1], dt[2]) }

DateLT(a, b) ==
    \/ a[1] < b[1]
    \/ a[1] = b[1] /\ a[2] < b[2]
    \/ a[1] = b[1] /\ a[2] = b[2] /\ a[3] < b[3]

DateLE(a, b) == a = b \/ DateLT(a, b)

\* dt + relativedelta(months = n): months beyond 11 carry into years, the
\* month is wrapped into 1..12, the day is clipped to the month's last day.
AddMonths(dt, n) ==
    LET s  == IF n < 0 THEN -1 ELSE 1
        yy == dt[1] + s * (Abs(n) \div 12)
        mm == dt[2] + s * (Abs(n) % 12)
        y  == IF mm > 12 THEN yy + 1 ELSE IF mm < 1 THEN yy - 1 ELSE yy
        m  == IF mm > 12 THEN mm - 12 ELSE IF mm < 1 THEN mm + 12 ELSE mm
    IN  <<y, m, Min(DaysInMonth(y, m), dt[3])>>

\* A window that starts eleven months back and ends with the month of now.
ElevenMonthsBack(end_date) == AddMonths(end_date, -11)

\* start_date = end_date - relativedelta(months=12)
start_date_of(end_date) == AddMonths(end_date, -12)

\* month_start of process_month(month_index)
month_start_of(start_date, month_index) == AddMonths(start_date, month_index)

\* month_end of process_month(month_index)
month_end_of(month_start) == AddMonths(month_start, 1)

\* strftime('%Y-%m'): the year and the month, the day dropped.
MonthLabel(dt) == <<dt[1], dt[2]>>

\* range(12)
NumMonths == 12

Months == 0..(NumMonths - 1)

\* end_date = datetime.now(); start_date = end_date - relativedelta(months=12)
DatesWindow ==
    /\ dates.pc = "now"
    /\ dates' = [now |-> dates.now, pc |-> "tasks", end_date |-> dates.now,
                 start_date |-> start_date_of(dates.now), intervals |-> << >>]
    /\ UNCHANGED <<grid, mosaic, mainVars>>

\* The first two lines of process_month(i), for i = 0, 1, ... in turn.
DatesTask ==
    /\ dates.pc = "tasks"
    /\ Len(dates.intervals) < NumMonths
    /\ LET i  == Len(dates.intervals)
           ms == month_start_of(dates.start_date, i)
       IN  dates' = [dates EXCEPT !.intervals =
                        Append(@, [month_start |-> ms, month_end |-> month_end_of(ms)])]
    /\ UNCHANGED <<grid, mosaic, mainVars>>

(***************************************************************************)
(* request.data: Python values                                             *)
(***************************************************************************)

None == [py |-> "None"]

Num(n) == [py |-> "num", v |-> n]

Str(s) == [py |-> "str", v |-> s]

List(q) == [py |-> "list", v |-> q]

\* A dict is a function from its keys (strings) to values.
Dict(f) == [py |-> "dict", v |-> f]

EmptyDict == [py |-> "dict", v |-> [k \in {} |-> None]]

IsNone(x) == x.py = "None"

\* isinstance(x, dict)
IsDict(x) == x.py = "dict"

\* bool(x): None, 0, "", [] and {} are false.
Truthy(x) ==
    CASE x.py = "None" -> FALSE
      [] x.py = "num"  -> x.v # 0
      [] x.py = "str"  -> x.v # ""
      [] x.py = "list" -> x.v # << >>
      [] x.py = "dict" -> DOMAIN x.v # {}

\* d.get(k) of a dict d
PyGet(d, k) == IF k \in DOMAIN d.v THEN d.v[k] ELSE None

\* The outcome of an expression that may raise: a value or the exception.
Value(x) == [raised |-> "", value |-> x]

Raise(e) == [raised |-> e, value |-> None]

\* k in c. Membership in a dict is by key and in a list by element; None and
\* numbers are not iterable. The strings drawn are no longer than k, so that
\* k is a substring of c exactly when it equals c.
PyIn(k, c) ==
    CASE c.py = "dict" -> Value(k \in DOMAIN c.v)
      [] c.py = "list" -> Value(\E i \in 1..Len(c.v) : c.v[i] = Str(k))
      [] c.py = "str"  -> Value(c.v = k)
      [] OTHER         -> Raise("TypeError")

\* The strings float() parses; numbers of degrees are held in 1/10 degree.
NumericStrings == {"12.5", "-3"}

ParseFloat(s) == IF s = "12.5" THEN 125 ELSE -30

\* float(x): the number, a ValueError for a string that is not a number, a
\* TypeError for a value that is neither a string nor a number.
PyFloat(x) ==
    CASE x.py = "num" -> Value(x)
      [] x.py = "str" -> IF x.v \in NumericStrings
                         THEN Value(Num(ParseFloat(x.v)))
                         ELSE Raise("ValueError")
      [] OTHER        -> Raise("TypeError")

\* len(x)
PyLen(x) ==
    CASE x.py = "list" -> Value(Len(x.v))
      [] x.py = "str"  -> Value(Len(x.v))
      [] x.py = "dict" -> Value(Cardinality(DOMAIN x.v))
      [] OTHER         -> Raise("TypeError")

\* The month strings datetime.strptime(month, '%Y-%m') parses.
MonthStrings == {"2024-01", "2024-02"}

ParseMonth(s) == IF s = "2024-01" THEN <<2024, 1, 1>> ELSE <<2024, 2, 1>>

\* datetime.strptime(month, '%Y-%m'): the first day of the month, a
\* ValueError for a string of another form, a TypeError for a non-string.
Strptime(x) ==
    CASE x.py = "str" -> IF x.v \in MonthStrings
                         THEN [raised |-> "", value |-> ParseMonth(x.v)]
                         ELSE [raised |-> "ValueError", value |-> <<0, 0, 0>>]
      [] OTHER        -> [raised |-> "TypeError", value |-> <<0, 0, 0>>]

IsNumber(x) == x.py = "num"

\* Coordinates the geometry constructors of the client library take: a pair
\* of numbers (a point), or a list of rings of such pairs (a polygon).
IsPosition(x) ==
    /\ x.py = "list"
    /\ Len(x.v) = 2
    /\ \A i \in 1..2 : IsNumber(x.v[i])

IsRing(x) ==
    /\ x.py = "list"
    /\ \A i \in 1..Len(x.v) : IsPosition(x.v[i])

IsPolygonCoordinates(x) ==
    /\ x.py = "list"
    /\ x.v # << >>
    /\ \A i \in 1..Len(x.v) : IsRing(x.v[i])

(***************************************************************************)
(* The external service, and process_month of the four 12-month endpoints  *)
(***************************************************************************)

AmazonEndpoints == {"AmazonNDVIAPI", "AmazonLSTAPI"}

CustomEndpoints == {"CustomNDVIAPI", "CustomLSTAPI"}

PointEndpoints == {"PointNDVIMonthlyAPI", "PointLSTMonthlyAPI"}

YearEndpoints == AmazonEndpoints \cup CustomEndpoints

PostEndpoints == CustomEndpoints \cup PointEndpoints

Endpoints == YearEndpoints \cup PointEndpoints

Tiles == 1..Len(grid_tiles)

\* Half-to-even rounding of v to a multiple of unit: round(x, ndigits) on
\* values held in 1/100000.
Round(v, unit) ==
    LET q == v \div unit
        r == v % unit
    IN  IF 2 * r < unit THEN q * unit
        ELSE IF 2 * r > unit THEN (q + 1) * unit
        ELSE IF q % 2 = 0 THEN q * unit ELSE (q + 1) * unit

\* round(x, 4) for NDVI, round(x, 2) for LST
RoundUnit(ep) == IF ep \in {"CustomNDVIAPI", "PointNDVIMonthlyAPI"} THEN 10 ELSE 1000

\* round(val, n) if val is not None else None
round_or_none(val, ep) == IF ~IsNone(val) THEN Num(Round(val.v, RoundUnit(ep))) ELSE None

\* A flag computed by truth value: 0 counts as no data.
AvailableIfTruthy(val) == Truthy(val)

\* 'data_available': val is not None
data_available(val) == ~IsNone(val)

\* What the service answers to the queries of process_month(m) of an Amazon
\* endpoint: the tiles whose fetch raises, and whether getMapId raises. The
\* months differ: none, the first, every and the last tile fail in turn.
amazon_answer(m) ==
    [failed_tiles |-> CASE m % 4 = 1 -> {1}
                        [] m % 4 = 2 -> Tiles
                        [] m % 4 = 3 -> {Len(grid_tiles)}
                        [] OTHER     -> {},
     count_raises |-> FALSE, raises |-> FALSE]

\* What the service answers to the queries of process_month(m) of a custom
\* endpoint: the statistics (in 1/100000), and whether the count query or
\* the statistics query raises. The months differ: values, no value at all,
\* zeros, and a mean without a minimum come in turn.
custom_answer(m) ==
    CASE m % 4 = 1 -> [mean |-> None, min |-> None, max |-> None,
                       count_raises |-> FALSE, raises |-> FALSE]
      [] m % 4 = 2 -> [mean |-> Num(0), min |-> Num(0), max |-> Num(0),
                       count_raises |-> FALSE, raises |-> FALSE]
      [] m % 4 = 3 -> [mean |-> Num(4), min |-> None, max |-> Num(1500),
                       count_raises |-> FALSE, raises |-> FALSE]
      [] OTHER     -> [mean |-> Num(43215), min |-> Num(-5), max |-> Num(99995),
                       count_raises |-> FALSE, raises |-> FALSE]

\* The fetch of one (tile, month): the tile's median image, or the blank
\* image of the except clause; the function itself never raises.
process_tile_month(tile, outcome) ==
    IF tile \in outcome.failed_tiles
    THEN [raised |-> FALSE, image |-> "constant(0)", tile |-> tile]
    ELSE [raised |-> FALSE, image |-> "median", tile |-> tile]

\* A loop that calls process_tile_month again for a tile whose fetch failed.
RetryFailedTiles(outcome) ==
    [t \in Tiles |-> IF t \in outcome.failed_tiles THEN 2 ELSE 1]

\* The process_tile_month calls of one process_month call, per tile: the
\* loop "for i, tile in enumerate(grid_tiles)" calls it once for each tile.
tile_fetches(outcome) == [t \in Tiles |-> 1]

\* A custom endpoint has no tiles and fetches none.
NoFetches == [t \in Tiles |-> 0]

\* A loop that appends nothing for a tile whose fetch failed.
DropFailedTiles(outcome) ==
    LET fetched == SelectSeq([t \in Tiles |-> t], LAMBDA t : t \notin outcome.failed_tiles)
    IN  [i \in 1..Len(fetched) |-> [image |-> "median", tile |-> fetched[i]]]

\* The loop over grid_tiles of process_month, with its own except clause.
tile_images_of(outcome) ==
    [t \in Tiles |->
        LET r == process_tile_month(t, outcome)
        IN  IF r.raised THEN [image |-> "constant(0)", tile |-> t]
            ELSE [image |-> r.image, tile |-> r.tile]]

\* The branch test of process_month: "if tile_images:" is false only for
\* the empty list.
use_mosaic(tile_images) == tile_images # << >>

\* process_month of AmazonNDVIAPI and AmazonLSTAPI. The result carries, next
\* to the entry returned, what the call did: how the image was built, the
\* tiles fetched, the queries issued, the run (pool or fallback) it is of.
amazon_process_month(ep, month_index, at, outcome, run) ==
    LET month_start == month_start_of(start_date_of(at), month_index)
        tile_images == tile_images_of(outcome)
        mosaicked   == use_mosaic(tile_images)
        common      == [month |-> MonthLabel(month_start),
                        month_name |-> MonthLabel(month_start),
                        tile_url |-> "url", vis_params |-> "vis_params",
                        tiles_processed |-> Len(tile_images),
                        grid_coverage |-> "complete"]
    IN  [raised |-> outcome.raises,
         entry |-> IF ep = "AmazonNDVIAPI"
                   THEN common @@ [data_type |-> "NDVI"]
                   ELSE common @@ [data_type |-> "LST", unit |-> "Celsius"],
         built_from |-> IF mosaicked THEN "mosaic" ELSE "whole_region",
         placeholders |-> { tile_images[i].tile :
                              i \in { j \in DOMAIN tile_images :
                                        tile_images[j].image = "constant(0)" } },
         index |-> month_index, run |-> run,
         fetches |-> tile_fetches(outcome),
         queries |-> 1]

\* process_month of CustomNDVIAPI and CustomLSTAPI. Only the NDVI endpoint
\* asks for the image count before the statistics.
custom_process_month(ep, month_index, at, outcome, run) ==
    LET month_start == month_start_of(start_date_of(at), month_index)
        counted     == ep = "CustomNDVIAPI"
        raised      == (counted /\ outcome.count_raises) \/ outcome.raises
        common      == [month |-> MonthLabel(month_start),
                        month_name |-> MonthLabel(month_start),
                        statistics |-> [mean |-> round_or_none(outcome.mean, ep),
                                        min |-> round_or_none(outcome.min, ep),
                                        max |-> round_or_none(outcome.max, ep)],
                        data_available |-> data_available(outcome.mean)]
    IN  [raised |-> raised,
         entry |-> IF ep = "CustomNDVIAPI"
                   THEN common @@ [data_type |-> "NDVI"]
                   ELSE common @@ [data_type |-> "LST", unit |-> "Celsius"],
         built_from |-> "aoi", placeholders |-> {},
         index |-> month_index, run |-> run,
         fetches |-> NoFetches,
         queries |-> IF counted /\ ~outcome.count_raises THEN 2 ELSE 1]

process_month(ep, month_index, at, outcome, run) ==
    IF ep \in AmazonEndpoints
    THEN amazon_process_month(ep, month_index, at, outcome, run)
    ELSE custom_process_month(ep, month_index, at, outcome, run)

(***************************************************************************)
(* The monthly composite: images as their pixels                           *)
(***************************************************************************)

\* Pixels SpecMosaic follows in each tile.
PixelsPerTile == 2

PixelIds == 1..PixelsPerTile

\* A pixel of an image is masked (no value) or holds a value.
MaskedPixel == [masked |-> TRUE, v |-> 0]

Valued(v) == [masked |-> FALSE, v |-> v]

\* Values drawn for a pixel of a sampled tile's median image: a negative one
\* and zero; the pixels of the other tiles hold a positive one.
PixelValues == {-5, 0}

PixelSamples == {MaskedPixel} \cup { Valued(v) : v \in PixelValues }

\* The tiles whose median image SpecMosaic draws; the other tiles' pixels
\* hold one value.
SampledTiles == {1, Len(grid_tiles)}

\* An image is its pixels, tile by tile (the tiles partition the region).
\* ee.Image.constant(c): every pixel holds c.
constant(c) == [t \in Tiles |-> [k \in PixelIds |-> Valued(c)]]

\* image.clip(tile): the pixels outside the tile are masked.
clip(image, tile) ==
    [t \in Tiles |-> [k \in PixelIds |-> IF t = tile THEN image[t][k] ELSE MaskedPixel]]

\* The image behind a handle of tile_images: the tile's median image or the
\* blank image, both clipped to the tile.
image_of(handle, medians) ==
    IF handle.image = "constant(0)" THEN clip(constant(0), handle.tile)
    ELSE clip(medians, handle.tile)

\* ImageCollection.fromImages(images).mosaic(): at each pixel the last image
\* of the list that is not masked there.
mosaic_of(images) ==
    [t \in Tiles |-> [k \in PixelIds |->
        LET on == { i \in DOMAIN images : ~images[i][t][k].masked }
        IN  IF on = {} THEN MaskedPixel
            ELSE images[CHOOSE i \in on : \A j \in on : j <= i][t][k]]]

\* A comparison that keeps the positive values only: image.gt(c).
gt(image, c) ==
    [t \in Tiles |-> [k \in PixelIds |->
        IF image[t][k].masked THEN MaskedPixel
        ELSE Valued(IF image[t][k].v > c THEN 1 ELSE 0)]]

\* image.neq(c): 1 where the value differs from c, 0 where it equals c.
neq(image, c) ==
    [t \in Tiles |-> [k \in PixelIds |->
        IF image[t][k].masked THEN MaskedPixel
        ELSE Valued(IF image[t][k].v # c THEN 1 ELSE 0)]]

\* image.updateMask(mask): a pixel stays where the mask is not zero.
updateMask(image, mask) ==
    [t \in Tiles |-> [k \in PixelIds |->
        IF image[t][k].masked \/ mask[t][k].masked \/ mask[t][k].v = 0
        THEN MaskedPixel ELSE image[t][k]]]

\* merged_ndvi / merged_lst of process_month: the mosaic of the tile images
\* (clipped to aoi, which holds every tile) with its zero pixels masked, or
\* the whole-region median of the else branch.
merged_image(tile_images, medians) ==
    IF use_mosaic(tile_images)
    THEN LET merged == mosaic_of([i \in DOMAIN tile_images |->
                                     image_of(tile_images[i], medians)])
         IN  updateMask(merged, neq(merged, 0))
    ELSE medians

\* The median images of the tiles, from the pixels drawn for the sampled
\* tiles.
MediansOf(drawn) ==
    [t \in Tiles |-> IF t \in SampledTiles THEN drawn[t]
                      ELSE [k \in PixelIds |-> Valued(4)]]

MosaicIdle ==
    [outcome |-> amazon_answer(0),
     drawn |-> [t \in SampledTiles |-> [k \in PixelIds |-> MaskedPixel]],
     built |-> FALSE, composite |-> << >>]

\* The tile loop and the merge of one process_month call.
MosaicBuild ==
    /\ ~mosaic.built
    /\ mosaic' = [mosaic EXCEPT
                     !.built = TRUE,
                     !.composite = merged_image(tile_images_of(mosaic.outcome),
                                                MediansOf(mosaic.drawn))]
    /\ UNCHANGED <<grid, dates, mainVars>>

\* A pool with one worker thread more.
OneMoreWorker(ep) == IF ep \in AmazonEndpoints THEN 4 ELSE 5

\* ThreadPoolExecutor(max_workers=...)
max_workers(ep) == IF ep \in AmazonEndpoints THEN 3 ELSE 4

(***************************************************************************)
(* Requests and their validation                                           *)
(***************************************************************************)

Absent == [py |-> "absent"]

\* The dict holding the fields that are present.
DictOf(fields) ==
    Dict([k \in {x \in DOMAIN fields : fields[x] # Absent} |-> fields[k]])

Feature(geom) == Dict([geometry |-> geom])

Position(x, y) == List(<<Num(x), Num(y)>>)

SquareRing == List(<<Position(0, 0), Position(0, 1), Position(1, 1),
                     Position(1, 0), Position(0, 0)>>)

\* request.data of a custom endpoint: the "geometry" field.
CustomGeometries ==
    { Absent, None, Str(""), Str("abc"), List(<<Num(1)>>),
      Dict([type |-> Str("Feature")]),
      Feature(None), Feature(Num(7)), Feature(List(<<>>)),
      Feature(List(<<Str("coordinates")>>)),
      Feature(Dict([type |-> Str("Polygon")])),
      Feature(Dict([type |-> Str("Polygon"), coordinates |-> List(<<SquareRing>>)])) }

CustomRequests == { DictOf([geometry |-> g]) : g \in CustomGeometries }

Latitudes == { Absent, Num(1), Str("12.5"), Str("abc"), List(<<Num(1)>>) }

Longitudes == { Absent, Num(2), Str("-3"), Str("abc") }

PointGeometries ==
    { Absent, Str("abc"),
      Dict([type |-> Str("Point")]),
      Feature(None),
      Feature(Dict([type |-> Str("Polygon"), coordinates |-> List(<<SquareRing>>)])),
      Feature(Dict([type |-> Str("Point")])),
      Feature(Dict([type |-> Str("Point"), coordinates |-> None])),
      Feature(Dict([type |-> Str("Point"), coordinates |-> List(<<Num(3)>>)])),
      Feature(Dict([type |-> Str("Point"), coordinates |-> List(<<Str("a"), Str("b")>>)])),
      Feature(Dict([type |-> Str("Point"), coordinates |-> List(<<Num(3), Num(4)>>)])) }

MonthValues == { Absent, Str(""), Str("2024-01"), Str("2024-02"), Str("2024-13"),
                 Num(202401) }

PointRequests ==
    { DictOf([latitude |-> la, longitude |-> lo, geometry |-> g, month |-> mo]) :
        la \in Latitudes, lo \in Longitudes, g \in PointGeometries, mo \in MonthValues }

Requests(ep) ==
    IF ep \in AmazonEndpoints THEN {EmptyDict}
    ELSE IF ep \in CustomEndpoints THEN CustomRequests
    ELSE PointRequests

\* The outcome of the validating part of a handler: a Response to return
\* (status 400), an exception for the outer except clause (status 0 and
\* raised), or the values it read (status 0).
Reject(msg) == [status |-> 400, error |-> msg, raised |-> FALSE, read |-> None]

Throw(e) == [status |-> 0, error |-> e, raised |-> TRUE, read |-> None]

Accept(x) == [status |-> 0, error |-> "", raised |-> FALSE, read |-> x]

\* CustomNDVIAPI.post and CustomLSTAPI.post up to the construction of aoi:
\* the coordinates handed to ee.Geometry.Polygon, a 400, or an exception.
custom_validate(data) ==
    LET aoi_geojson == PyGet(data, "geometry")
    IN  IF ~Truthy(aoi_geojson) THEN Reject("Missing geometry parameter")
        ELSE IF ~IsDict(aoi_geojson) \/ "geometry" \notin DOMAIN aoi_geojson.v
             THEN Reject("Invalid AOI format")
        ELSE LET inner == aoi_geojson.v["geometry"]
                 has   == PyIn("coordinates", inner)
             IN  IF has.raised # "" THEN Throw(has.raised)
                 ELSE IF ~has.value THEN Reject("Invalid AOI format")
                 ELSE IF ~IsDict(inner) THEN Throw("TypeError")
                 ELSE Accept(inner.v["coordinates"])

\* The month checks of the point endpoints.
month_validate(month, lat, lon) ==
    IF ~Truthy(month) THEN Reject("Missing month parameter")
    ELSE LET month_date == Strptime(month)
         IN  IF month_date.raised # ""
             THEN Reject("Invalid month format (use YYYY-MM)")
             ELSE Accept([lat |-> lat, lon |-> lon, month |-> month,
                          month_date |-> month_date.value])

\* The geometry branch of the point endpoints: geometry is not None here.
point_geometry_validate(geometry, month) ==
    IF ~(IsDict(geometry) /\ "geometry" \in DOMAIN geometry.v)
    THEN Reject("Invalid geometry object format")
    ELSE LET geom_data == geometry.v["geometry"]
         IN  IF ~IsDict(geom_data) THEN Throw("AttributeError")
             ELSE IF ~(PyGet(geom_data, "type") = Str("Point")
                       /\ "coordinates" \in DOMAIN geom_data.v)
                  THEN Reject("Invalid geometry format - expected Point")
             ELSE LET coords == geom_data.v["coordinates"]
                      n      == PyLen(coords)
                  IN  IF n.raised # "" THEN Throw(n.raised)
                      ELSE IF n.value >= 2
                           THEN month_validate(month, coords.v[2], coords.v[1])
                           ELSE Reject("Invalid coordinates format")

\* PointNDVIMonthlyAPI.post and PointLSTMonthlyAPI.post up to the
\* construction of point.
point_validate(data) ==
    LET latitude  == PyGet(data, "latitude")
        longitude == PyGet(data, "longitude")
        geometry  == PyGet(data, "geometry")
        month     == PyGet(data, "month")
    IN  IF ~IsNone(latitude) /\ ~IsNone(longitude)
        THEN LET lat == PyFloat(latitude)
                 lon == PyFloat(longitude)
             IN  IF lat.raised # "" \/ lon.raised # ""
                 THEN Reject("Invalid latitude or longitude format")
                 ELSE month_validate(month, lat.value, lon.value)
        ELSE IF ~IsNone(geometry)
             THEN point_geometry_validate(geometry, month)
             ELSE Reject("Missing latitude/longitude or geometry parameter")

(***************************************************************************)
(* One request: the state and its initial values                           *)
(***************************************************************************)

\* The value of datetime.now() in Spec: a last day of a month.
NowSamples == { <<2024, 1, 31>> }

\* A query of the service may raise for the months 0 .. MaxFaultMonth.
MaxFaultMonth == 1

AllOk(ep) ==
    [m \in Months |-> IF ep \in AmazonEndpoints THEN amazon_answer(m) ELSE custom_answer(m)]

\* The queries of a process_month call that may raise: getMapId of an Amazon
\* endpoint, the statistics query of a custom one, and the count query that
\* only CustomNDVIAPI issues.
Raising(ep, a) ==
    {[a EXCEPT !.raises = TRUE]} \cup
    (IF ep = "CustomNDVIAPI" THEN {[a EXCEPT !.count_raises = TRUE]} ELSE {})

\* The answers of one run: no query raises, or the queries of one month do.
Answers(ep) ==
    {AllOk(ep)} \cup
    UNION { { [AllOk(ep) EXCEPT ![m] = f] : f \in Raising(ep, AllOk(ep)[m]) } :
            m \in 0..Min(MaxFaultMonth, NumMonths - 1) }

\* The service over a request: its answers to the pool's calls, and to the
\* fallback's calls either the same answers (a deterministic service) or
\* the same without the exception (a transient fault).
Services(ep) ==
    IF ep \in PointEndpoints THEN { [pool |-> AllOk(ep), seq |-> AllOk(ep)] }
    ELSE UNION { { [pool |-> a, seq |-> a], [pool |-> a, seq |-> AllOk(ep)] } :
                 a \in Answers(ep) }

NoResult == [raised |-> FALSE, index |-> -1, run |-> "none"]

NoFutures == [m \in Months |-> [state |-> "none", result |-> NoResult]]

NoSample == [size_raises |-> FALSE, size |-> 0, value_raises |-> FALSE, value |-> None]

NoLocal == [lat |-> None, lon |-> None, month |-> None, month_date |-> <<0, 0, 0>>,
            image_count |-> None, sampled |-> NoSample, value |-> None]

\* The remote calls so far: the queries issued, for each month the fetches
\* per tile of every process_month call made for it,
\* whether a task has finished while an earlier one was still running, and
\* whether tasks were still queued when a result() raised in the main thread.
NoRemote == [queries |-> 0, fetches |-> [m \in Months |-> << >>], overtaken |-> FALSE,
             queued_at_raise |-> FALSE]

NoResponse == [status |-> 0, body |-> [success |-> FALSE], results |-> << >>]

MainIdle ==
    /\ endpoint = "none"
    /\ request = EmptyDict
    /\ now = <<0, 0, 0>>
    /\ service = [pool |-> << >>, seq |-> << >>]
    /\ pc = "idle"
    /\ futures = NoFutures
    /\ layers = << >>
    /\ fallback = [i |-> 0, running |-> FALSE]
    /\ local = NoLocal
    /\ remote = NoRemote
    /\ response = NoResponse

Init ==
    /\ grid = GridIdle
    /\ dates = DatesIdle
    /\ mosaic = MosaicIdle
    /\ endpoint \in Endpoints
    /\ request \in Requests(endpoint)
    /\ now \in IF endpoint \in PointEndpoints THEN {<<0, 0, 0>>} ELSE NowSamples
    /\ service \in Services(endpoint)
    /\ pc = "start"
    /\ futures = NoFutures
    /\ layers = << >>
    /\ fallback = [i |-> 0, running |-> FALSE]
    /\ local = NoLocal
    /\ remote = NoRemote
    /\ response = NoResponse

InitGrid ==
    /\ grid \in { [args |-> a, called |-> FALSE, tiles |-> << >>] :
                    a \in { g \in GridArgs : g.min_lon < g.max_lon /\ g.min_lat < g.max_lat }
                          \cup {AmazonArgs} }
    /\ dates = DatesIdle
    /\ mosaic = MosaicIdle
    /\ MainIdle

InitDates ==
    /\ grid = GridIdle
    /\ mosaic = MosaicIdle
    /\ dates \in { [now |-> d, pc |-> "now"] : d \in ValidDates }
    /\ MainIdle

(***************************************************************************)
(* One request: the handlers                                               *)
(***************************************************************************)

\* An error body that also returns the months built so far.
PartialBody(msg) ==
    [success |-> FALSE, error |-> msg,
     monthly_layers |-> [i \in 1..Len(layers) |-> layers[i].entry]]

\* {"success": False, "error": str(e)}
ErrorBody(msg) == [success |-> FALSE, error |-> msg]

\* return Response({"success": False, "error": ...}, status=400)
Respond400(msg) ==
    /\ response' = [status |-> 400, body |-> ErrorBody(msg), results |-> << >>]
    /\ pc' = "done"

\* An except clause that raises the exception again: no response is made.
Reraise(e) ==
    /\ response' = NoResponse
    /\ pc' = "done"

\* The outer except clause: return Response({...}, status=500)
Respond500(e) ==
    /\ response' = [status |-> 500, body |-> ErrorBody(e), results |-> << >>]
    /\ pc' = "done"

\* AmazonNDVIAPI.get / AmazonLSTAPI.get up to the pool: the grid and the
\* window are computed from constants and from now.
AmazonBegin ==
    /\ pc = "start"
    /\ endpoint \in AmazonEndpoints
    /\ pc' = "pool"
    /\ UNCHANGED <<grid, dates, mosaic, endpoint, request, now, service, futures, layers,
                   fallback, local, remote, response>>

\* CustomNDVIAPI.post / CustomLSTAPI.post up to the pool. The requests drawn
\* that pass the checks hold the coordinates of a polygon, from which
\* ee.Geometry.Polygon builds aoi without a query.
CustomBegin ==
    /\ pc = "start"
    /\ endpoint \in CustomEndpoints
    /\ LET v == custom_validate(request)
       IN  \/ /\ v.status = 400
              /\ Respond400(v.error)
           \/ /\ v.status = 0 /\ v.raised
              /\ Respond500(v.error)
           \/ /\ v.status = 0 /\ ~v.raised
              /\ pc' = "pool"
              /\ UNCHANGED response
    /\ UNCHANGED <<grid, dates, mosaic, endpoint, request, now, service, futures, layers,
                   fallback, local, remote>>

\* with ThreadPoolExecutor(max_workers=n) as executor:
\*     futures = [executor.submit(process_month, i) for i in range(12)]
\* The twelve tasks are queued in index order.
PoolSubmit ==
    /\ pc = "pool"
    /\ futures' = [m \in Months |-> [state |-> "queued", result |-> NoResult]]
    /\ layers' = << >>
    /\ pc' = "collect"
    /\ UNCHANGED <<grid, dates, mosaic, endpoint, request, now, service, fallback, local,
                   remote, response>>

\* The pool cannot be created: the except clause of the inner try runs.
PoolFails ==
    /\ pc = "pool"
    /\ layers' = << >>
    /\ pc' = "fallback"
    /\ UNCHANGED <<grid, dates, mosaic, endpoint, request, now, service, futures, fallback,
                   local, remote, response>>

Running == { m \in Months : futures[m].state = "running" }

Queued == { m \in Months : futures[m].state = "queued" }

\* A worker thread takes the oldest queued task; there are at most
\* max_workers threads.
WorkerStart(m) ==
    /\ futures[m].state = "queued"
    /\ \A k \in Queued : m <= k
    /\ Cardinality(Running) < max_workers(endpoint)
    /\ futures' = [futures EXCEPT ![m].state = "running"]
    /\ UNCHANGED <<grid, dates, mosaic, endpoint, request, now, service, pc, layers,
                   fallback, local, remote, response>>

\* The remote calls of a process_month call are counted when it returns.
Count(r) ==
    [remote EXCEPT !.queries = @ + r.queries,
                   !.fetches = [@ EXCEPT ![r.index] = Append(@, r.fetches)],
                   !.overtaken = @ \/ \E k \in Running : k < r.index]

\* A worker thread's process_month(m) returns or raises into its future.
WorkerFinish(m) ==
    /\ futures[m].state = "running"
    /\ futures' = [futures EXCEPT ![m] =
                       [state |-> "done",
                        result |-> process_month(endpoint, m, now, service.pool[m], "pool")]]
    /\ remote' = Count(futures'[m].result)
    /\ UNCHANGED <<grid, dates, mosaic, endpoint, request, now, service, pc, layers,
                   fallback, local, response>>

\* The second future is taken first when it finished before the first one.
FirstFinishedOfTwo(collected, futs) ==
    IF Len(collected) = 0 /\ futs[0].state # "done" /\ futs[1].state = "done"
    THEN 1
    ELSE Len(collected)

\* The futures taken from the end of the list: reversed(futures).
ReversedOrder(collected, futs) == NumMonths - 1 - Len(collected)

\* The future whose result() the list comprehension waits for next: the
\* futures are taken in the order of the list.
next_future(collected, futs) == Len(collected)

\* monthly_layers = [future.result() for future in futures]: one result().
\* A raising result() leaves the with block, whose exit waits for the pool.
Collect ==
    /\ pc = "collect"
    /\ LET m == next_future(layers, futures)
       IN  /\ futures[m].state = "done"
           /\ IF futures[m].result.raised
              THEN /\ pc' = "shutdown"
                   /\ remote' = [remote EXCEPT !.queued_at_raise = Queued # {}]
                   /\ UNCHANGED layers
              ELSE /\ layers' = Append(layers, futures[m].result)
                   /\ pc' = IF Len(layers') = NumMonths THEN "respond" ELSE "collect"
                   /\ UNCHANGED remote
    /\ UNCHANGED <<grid, dates, mosaic, endpoint, request, now, service, futures, fallback,
                   local, response>>

\* A fallback that goes on from the results already collected.
KeepCollected(collected) == collected

\* monthly_layers = [] of the except clause
fallback_layers(collected) == << >>

\* An exit that does not wait for the workers: shutdown(wait=False).
ShutdownNoWait(futs) == TRUE

\* executor.__exit__ is shutdown(wait=True): it returns when every submitted
\* task has run, the queued ones included.
shutdown_returns(futs) == \A m \in Months : futs[m].state = "done"

\* The with block is left by the exception; then the except clause starts.
PoolShutdown ==
    /\ pc = "shutdown"
    /\ shutdown_returns(futures)
    /\ layers' = fallback_layers(layers)
    /\ pc' = "fallback"
    /\ UNCHANGED <<grid, dates, mosaic, endpoint, request, now, service, futures, fallback,
                   local, remote, response>>

\* for i in range(12): the call process_month(i) of the fallback starts.
FallbackStart ==
    /\ pc = "fallback"
    /\ ~fallback.running
    /\ fallback.i < NumMonths
    /\ fallback' = [fallback EXCEPT !.running = TRUE]
    /\ UNCHANGED <<grid, dates, mosaic, endpoint, request, now, service, pc, futures,
                   layers, local, remote, response>>

\* The fallback's process_month(i) returns and is appended, or raises into
\* the outer except clause.
FallbackFinish ==
    /\ pc = "fallback"
    /\ fallback.running
    /\ LET r == process_month(endpoint, fallback.i, now, service.seq[fallback.i], "seq")
       IN  /\ remote' = Count(r)
           /\ fallback' = [i |-> fallback.i + 1, running |-> FALSE]
           /\ IF r.raised
              THEN /\ Respond500("process_month")
                   /\ UNCHANGED layers
              ELSE /\ layers' = Append(layers, r)
                   /\ pc' = IF fallback.i + 1 = NumMonths THEN "respond" ELSE "fallback"
                   /\ UNCHANGED response
    /\ UNCHANGED <<grid, dates, mosaic, endpoint, request, now, service, futures, local>>

TimePeriod == <<MonthLabel(start_date_of(now)), MonthLabel(now)>>

Entries(results) == [i \in 1..Len(results) |-> results[i].entry]

amazon_response(ep, results) ==
    [success |-> TRUE, region |-> "Amazon Rainforest",
     data_type |-> IF ep = "AmazonNDVIAPI" THEN "NDVI" ELSE "LST (Land Surface Temperature)",
     time_period |-> TimePeriod, total_layers |-> 12,
     monthly_layers |-> Entries(results), legend |-> "legend",
     aoi_bounds |-> "amazon_bounds",
     processing_info |-> [grid_tiles |-> Len(grid_tiles), tile_size_degrees |-> 5,
                          coverage_method |-> "grid-based_tiling"]]

custom_response(ep, results, data) ==
    [success |-> TRUE, region |-> "Custom AOI",
     data_type |-> IF ep = "CustomNDVIAPI" THEN "NDVI" ELSE "LST (Land Surface Temperature)",
     time_period |-> TimePeriod, total_months |-> 12,
     monthly_statistics |-> Entries(results),
     aoi_bounds |-> data.v["geometry"].v["geometry"].v["coordinates"]]

\* response = {...}; return Response(response, status=200)
Respond200 ==
    /\ pc = "respond"
    /\ endpoint \in YearEndpoints
    /\ response' = [status |-> 200,
                    body |-> IF endpoint \in AmazonEndpoints
                             THEN amazon_response(endpoint, layers)
                             ELSE custom_response(endpoint, layers, request),
                    results |-> layers]
    /\ pc' = "done"
    /\ UNCHANGED <<grid, dates, mosaic, endpoint, request, now, service, futures, layers,
                   fallback, local, remote>>

\* PointNDVIMonthlyAPI.post / PointLSTMonthlyAPI.post up to the first query.
\* ee.Geometry.Point is the client library's: on coordinates that are not
\* numbers it raises or accepts them, and it issues no query.
PointBegin ==
    /\ pc = "start"
    /\ endpoint \in PointEndpoints
    /\ LET v == point_validate(request)
       IN  \/ /\ v.status = 400
              /\ Respond400(v.error)
              /\ UNCHANGED local
           \/ /\ v.status = 0 /\ v.raised
              /\ Respond500(v.error)
              /\ UNCHANGED local
           \/ /\ v.status = 0 /\ ~v.raised
              /\ ~(IsNumber(v.read.lat) /\ IsNumber(v.read.lon))
              /\ Respond500("EEException")
              /\ UNCHANGED local
           \/ /\ v.status = 0 /\ ~v.raised
              /\ local' = [NoLocal EXCEPT !.lat = v.read.lat, !.lon = v.read.lon,
                                          !.month = v.read.month,
                                          !.month_date = v.read.month_date]
              /\ pc' = IF endpoint = "PointNDVIMonthlyAPI" THEN "count" ELSE "sample"
              /\ UNCHANGED response
    /\ UNCHANGED <<grid, dates, mosaic, endpoint, request, now, service, futures, layers,
                   fallback, remote>>

Queried(n) == [remote EXCEPT !.queries = @ + n]

\* image_count = s2_monthly.size().getInfo(), outside any inner try.
PointCount ==
    /\ pc = "count"
    /\ \/ /\ Respond500("getInfo")
          /\ UNCHANGED local
       \/ /\ \E n \in {0, 3} : local' = [local EXCEPT !.image_count = Num(n)]
          /\ pc' = "sample"
          /\ UNCHANGED response
    /\ remote' = Queried(1)
    /\ UNCHANGED <<grid, dates, mosaic, endpoint, request, now, service, futures, layers,
                   fallback>>

\* What the service answers to the two queries of the sampling block: the
\* sample size, then the first sample's value (in 1/100000).
SampleOutcomes ==
    { [size_raises |-> TRUE, size |-> 0, value_raises |-> FALSE, value |-> None],
      [size_raises |-> FALSE, size |-> 0, value_raises |-> FALSE, value |-> None],
      [size_raises |-> FALSE, size |-> 1, value_raises |-> TRUE, value |-> None] }
    \cup
    { [size_raises |-> FALSE, size |-> 1, value_raises |-> FALSE, value |-> v] :
        v \in {None, Num(0), Num(4), Num(-5), Num(43215), Num(2685000)} }

\* The sampling block: the value read, None when the sample is empty and
\* None when a query raises.
sample_value(o) ==
    IF o.size_raises THEN None
    ELSE IF o.size > 0
         THEN (IF o.value_raises THEN None ELSE o.value)
         ELSE None

PointSample ==
    /\ pc = "sample"
    /\ \E o \in SampleOutcomes :
          /\ local' = [local EXCEPT !.sampled = o, !.value = sample_value(o)]
          /\ remote' = Queried(IF ~o.size_raises /\ o.size > 0 THEN 2 ELSE 1)
    /\ pc' = "region"
    /\ UNCHANGED <<grid, dates, mosaic, endpoint, request, now, service, futures, layers,
                   fallback, response>>

\* What getRegion(...).getInfo() answers: an exception, or the header row
\* followed by the rows, of which only the value column is held.
Header == Str("header")

RegionOutcomes ==
    { [raises |-> TRUE, all_values |-> << >>],
      [raises |-> FALSE, all_values |-> <<Header>>],
      [raises |-> FALSE, all_values |-> <<Header, None>>],
      [raises |-> FALSE, all_values |-> <<Header, Num(12344), None, Num(0)>>] }

HasValue(row) == ~IsNone(row)

\* The value appended for a row: round(row[4], 4), or for LST the value
\* in Celsius, round(row[4] * 0.02 - 273.15, 2), the raw value a whole number.
row_value(ep, row) ==
    IF ep = "PointNDVIMonthlyAPI" THEN Round(row.v, 10)
    ELSE Round(row.v * 2000 - 27315000, 1000)

\* The loop over all_values[1:] and the except clause that empties the list.
region_values(ep, o) ==
    IF o.raises THEN << >>
    ELSE IF Len(o.all_values) > 1
         THEN LET rows == SelectSeq(Tail(o.all_values), HasValue)
              IN  [i \in 1..Len(rows) |-> row_value(ep, rows[i])]
         ELSE << >>

point_response(ep, loc, values) ==
    LET common == [success |-> TRUE,
                   location |-> [latitude |-> loc.lat, longitude |-> loc.lon],
                   month |-> loc.month, month_name |-> MonthLabel(loc.month_date),
                   data_available |-> data_available(loc.value)]
    IN  IF ep = "PointNDVIMonthlyAPI"
        THEN common @@ [data_type |-> "NDVI",
                        median_ndvi |-> round_or_none(loc.value, ep),
                        all_ndvi_values |-> values,
                        image_count |-> loc.image_count]
        ELSE common @@ [data_type |-> "LST (Land Surface Temperature)",
                        unit |-> "Celsius",
                        median_lst |-> round_or_none(loc.value, ep),
                        all_lst_values |-> values]

\* The getRegion block, then return Response(response, status=200).
PointRegion ==
    /\ pc = "region"
    /\ \E o \in RegionOutcomes :
          response' = [status |-> 200,
                       body |-> point_response(endpoint, local, region_values(endpoint, o)),
                       results |-> <<o>>]
    /\ remote' = Queried(1)
    /\ pc' = "done"
    /\ UNCHANGED <<grid, dates, mosaic, endpoint, request, now, service, futures, layers,
                   fallback, local>>

Next ==
    \/ AmazonBegin
    \/ CustomBegin
    \/ PointBegin
    \/ PoolSubmit
    \/ PoolFails
    \/ \E m \in Months : WorkerStart(m)
    \/ \E m \in Months : WorkerFinish(m)
    \/ Collect
    \/ PoolShutdown
    \/ FallbackStart
    \/ FallbackFinish
    \/ Respond200
    \/ PointCount
    \/ PointSample
    \/ PointRegion

Spec == Init /\ [][Next]_vars

NextGrid == GridCall

SpecGrid == InitGrid /\ [][NextGrid]_vars

NextDates == DatesWindow \/ DatesTask

SpecDates == InitDates /\ [][NextDates]_vars

InitMosaic ==
    /\ grid = GridIdle
    /\ dates = DatesIdle
    /\ mosaic \in { [outcome |-> amazon_answer(m), drawn |-> d,
                      built |-> FALSE, composite |-> << >>] :
                       m \in 0..3, d \in [SampledTiles -> [PixelIds -> PixelSamples]] }
    /\ MainIdle

NextMosaic == MosaicBuild

SpecMosaic == InitMosaic /\ [][NextMosaic]_vars

(***************************************************************************)
(* Properties                                                              *)
(***************************************************************************)

Done == pc = "done"

Body == response.body

\* The per-month entries of a 200 response of a 12-month endpoint.
MonthlyEntries ==
    IF endpoint \in AmazonEndpoints THEN Body.monthly_layers ELSE Body.monthly_statistics

\* The answer the service gave to the process_month call behind a result.
AnswerTo(r) == IF r.run = "pool" THEN service.pool[r.index] ELSE service.seq[r.index]

\* Every result a process_month call has produced and the request still holds.
ResultsHeld ==
    { futures[m].result : m \in { k \in Months : futures[k].state = "done" } }
    \cup { layers[i] : i \in 1..Len(layers) }
    \cup { response.results[i] : i \in 1..Len(response.results) }

\* C1: in the Amazon endpoints, a month whose every tile fetch failed is
\* built from the whole-region query of the fallback branch.
C1_AllTilesFailedUsesWholeRegion ==
    endpoint \in AmazonEndpoints =>
        \A r \in ResultsHeld :
            AnswerTo(r).failed_tiles = Tiles => r.built_from = "whole_region"

NumericValue(x) == x.py = "num" \/ (x.py = "str" /\ x.v \in NumericStrings)

\* The nested shape a custom endpoint expects: a dict whose "geometry" is a
\* dict whose "coordinates" are those of a polygon.
WellFormedAOI(g) ==
    /\ IsDict(g)
    /\ "geometry" \in DOMAIN g.v
    /\ IsDict(g.v["geometry"])
    /\ "coordinates" \in DOMAIN g.v["geometry"].v
    /\ IsPolygonCoordinates(g.v["geometry"].v["coordinates"])

\* The nested shape a point endpoint expects: a dict whose "geometry" is a
\* dict of type Point whose "coordinates" start with two numbers.
WellFormedPoint(g) ==
    /\ IsDict(g)
    /\ "geometry" \in DOMAIN g.v
    /\ IsDict(g.v["geometry"])
    /\ "type" \in DOMAIN g.v["geometry"].v
    /\ g.v["geometry"].v["type"] = Str("Point")
    /\ "coordinates" \in DOMAIN g.v["geometry"].v
    /\ LET c == g.v["geometry"].v["coordinates"]
       IN  c.py = "list" /\ Len(c.v) >= 2 /\ IsNumber(c.v[1]) /\ IsNumber(c.v[2])

WellFormedMonth(mo) == mo.py = "str" /\ mo.v \in MonthStrings

\* A malformed request to a POST endpoint. A point request is read in the
\* latitude/longitude form when both are given, else in the geometry form.
Malformed ==
    IF endpoint \in CustomEndpoints
    THEN ~WellFormedAOI(PyGet(request, "geometry"))
    ELSE \/ ~WellFormedMonth(PyGet(request, "month"))
         \/ IF ~IsNone(PyGet(request, "latitude")) /\ ~IsNone(PyGet(request, "longitude"))
            THEN ~(NumericValue(PyGet(request, "latitude"))
                   /\ NumericValue(PyGet(request, "longitude")))
            ELSE ~WellFormedPoint(PyGet(request, "geometry"))

\* C2: a malformed request to a POST endpoint ends in a 400 response with
\* success = false, and no remote query is issued for it.
C2_MalformedIs400 ==
    (endpoint \in PostEndpoints /\ Malformed) =>
        /\ remote.queries = 0
        /\ Done => (response.status = 400 /\ Body.success = FALSE)

\* C3: the intervals [month_start_i, month_end_i) of the tasks are in
\* ascending order and consecutive: each ends where the next one starts.
C3_IntervalsConsecutive ==
    dates.pc = "tasks" =>
        /\ \A i \in 1..Len(dates.intervals) :
              DateLT(dates.intervals[i].month_start, dates.intervals[i].month_end)
        /\ \A i \in 1..(Len(dates.intervals) - 1) :
              dates.intervals[i].month_end = dates.intervals[i + 1].month_start

\* C4: the tiles create_grid_tiles returns are squares of side tile_size,
\* and every unit cell of the bounding box (hence every point of it, the
\* corners being whole numbers) lies in one of them.
C4_TilesCoverBox ==
    grid.called =>
        LET a == grid.args
            T == grid.tiles
        IN  /\ \A i \in 1..Len(T) :
                  /\ East(T[i]) - West(T[i]) = a.tile_size
                  /\ North(T[i]) - South(T[i]) = a.tile_size
            /\ \A x \in a.min_lon..(a.max_lon - 1), y \in a.min_lat..(a.max_lat - 1) :
                  \E i \in 1..Len(T) :
                      /\ West(T[i]) <= x /\ x + 1 <= East(T[i])
                      /\ South(T[i]) <= y /\ y + 1 <= North(T[i])

\* A box whose width and height tile_size does not divide has been tiled.
C4_Witness ==
    /\ grid.called
    /\ (grid.args.max_lon - grid.args.min_lon) % grid.args.tile_size # 0
    /\ (grid.args.max_lat - grid.args.min_lat) % grid.args.tile_size # 0
    /\ Len(grid.tiles) >= 4

NoValue(a) == IsNone(a.mean) /\ IsNone(a.min) /\ IsNone(a.max)

\* What the sampling queries of a point endpoint gave: no value when the size
\* query raised, the sample was empty, or the value query raised or gave null.
NoSampleValue(o) == o.size_raises \/ o.size = 0 \/ o.value_raises \/ IsNone(o.value)

PointMedian ==
    IF endpoint = "PointNDVIMonthlyAPI" THEN Body.median_ndvi ELSE Body.median_lst

\* C5: in a 200 response of a numeric endpoint, a month or point without a
\* value from the service has null statistics and data_available = false;
\* data_available is true exactly when the mean (the median) reported is not
\* null; a value of 0 is reported as 0 with data_available = true.
C5_NoDataIsNullNotZero ==
    /\ (endpoint \in CustomEndpoints /\ response.status = 200) =>
          \A i \in 1..Len(MonthlyEntries) :
              LET e == MonthlyEntries[i]
                  a == AnswerTo(response.results[i])
              IN  /\ e.data_available = ~IsNone(e.statistics.mean)
                  /\ NoValue(a) =>
                        /\ IsNone(e.statistics.mean)
                        /\ IsNone(e.statistics.min)
                        /\ IsNone(e.statistics.max)
                        /\ e.data_available = FALSE
                  /\ ~IsNone(a.mean) => ~IsNone(e.statistics.mean)
                  /\ a.mean = Num(0) => (e.statistics.mean = Num(0) /\ e.data_available)
    /\ (endpoint \in PointEndpoints /\ response.status = 200) =>
          /\ Body.data_available = ~IsNone(PointMedian)
          /\ NoSampleValue(local.sampled) =>
                (IsNone(PointMedian) /\ Body.data_available = FALSE)
          /\ ~NoSampleValue(local.sampled) => ~IsNone(PointMedian)
          /\ (~NoSampleValue(local.sampled) /\ local.sampled.value = Num(0)) =>
                (PointMedian = Num(0) /\ Body.data_available)

\* A 200 response of a custom endpoint with a month without data and a
\* month whose mean is 0.
C5_Witness ==
    /\ endpoint \in CustomEndpoints
    /\ response.status = 200
    /\ \E i \in 1..Len(MonthlyEntries) :
          /\ NoValue(AnswerTo(response.results[i]))
          /\ MonthlyEntries[i].data_available = FALSE
    /\ \E i \in 1..Len(MonthlyEntries) :
          /\ MonthlyEntries[i].statistics.mean = Num(0)
          /\ MonthlyEntries[i].data_available

\* The part of a response two invocations are compared on: the status, the
\* keys of the body, the month labels in order, the keys of each entry.
Shape(status, body, entries) ==
    [status |-> status,
     keys |-> DOMAIN body,
     months |-> [i \in 1..Len(entries) |-> entries[i].month],
     entry_keys |-> [i \in 1..Len(entries) |-> DOMAIN entries[i]]]

\* The response of a 12-month endpoint as a function of the request, of now
\* and of the service's answers alone: the months in index order, one call
\* after the other.
ExpectedShape(ep, data, at, answers) ==
    LET v       == IF ep \in CustomEndpoints THEN custom_validate(data) ELSE Accept(None)
        results == [i \in 1..NumMonths |->
                       process_month(ep, i - 1, at, answers[i - 1], "reference")]
        body    == IF ep \in AmazonEndpoints THEN amazon_response(ep, results)
                   ELSE custom_response(ep, results, data)
    IN  IF v.status = 400 THEN Shape(400, ErrorBody(v.error), << >>)
        ELSE IF v.raised THEN Shape(500, ErrorBody(v.error), << >>)
        ELSE IF \E i \in 1..NumMonths : results[i].raised
             THEN Shape(500, ErrorBody("process_month"), << >>)
        ELSE Shape(200, body, Entries(results))

\* C6: with a deterministic service (the same answers to the same calls),
\* the month labels in order and the keys of the response of a 12-month
\* endpoint are a function of the request and of now only: two invocations
\* agree, whatever the schedule of the workers and whichever of the pool and
\* the fallback built the result.
C6_ResponseIsDetermined ==
    (Done /\ endpoint \in YearEndpoints /\ service.seq = service.pool) =>
        Shape(response.status, Body,
              IF response.status = 200 THEN MonthlyEntries ELSE << >>)
          = ExpectedShape(endpoint, request, now, service.pool)

\* A 200 response under a deterministic service, after a task overtook an
\* earlier one in the pool.
C6_Witness ==
    /\ Done
    /\ endpoint \in YearEndpoints
    /\ service.seq = service.pool
    /\ response.status = 200
    /\ remote.overtaken
    /\ response.results[1].run = "pool"

\* C7: the i-th entry of a 200 response of a 12-month endpoint is the result
\* of process_month(i), whatever the order the workers finished in.
C7_EntriesInTaskOrder ==
    (response.status = 200 /\ endpoint \in YearEndpoints) =>
        /\ Len(MonthlyEntries) = NumMonths
        /\ \A i \in 1..Len(MonthlyEntries) :
              LET r == response.results[i]
              IN  /\ r.index = i - 1
                  /\ MonthlyEntries[i] =
                        process_month(endpoint, i - 1, now, AnswerTo(r), r.run).entry
                  /\ MonthlyEntries[i].month =
                        MonthLabel(month_start_of(start_date_of(now), i - 1))

\* A 200 response built from the pool's results, in whose run a task
\* finished before an earlier one.
C7_Witness ==
    /\ response.status = 200
    /\ endpoint \in YearEndpoints
    /\ remote.overtaken
    /\ \A i \in 1..Len(response.results) : response.results[i].run = "pool"

\* The process_month calls executing: the pool's, and the fallback's.
Executing == Cardinality(Running) + (IF fallback.running THEN 1 ELSE 0)

\* C8: at most 3 process_month calls of an Amazon request and at most 4 of a
\* custom request execute at the same time; a queued task starts only while
\* fewer are running.
C8_AtMostCapExecuting ==
    /\ endpoint \in AmazonEndpoints => Executing <= 3
    /\ endpoint \in CustomEndpoints => Executing <= 4

\* The pool is full while tasks are still queued.
C8_Witness ==
    /\ endpoint \in AmazonEndpoints
    /\ Cardinality(Running) = 3
    /\ Queued # {}

\* The pool path raised: the pool could not be created, or a future holds
\* an exception, which the collection in list order reaches.
PoolRaised ==
    \/ \A m \in Months : futures[m].state = "none"
    \/ \E m \in Months : futures[m].state = "done" /\ futures[m].result.raised

\* C9: after the pool path raised, process_month(0), ..., process_month(11)
\* are called one at a time in index order, no pool task running, and the
\* response holds these calls' results only.
C9_FallbackIsSequential ==
    /\ pc = "fallback" =>
          /\ PoolRaised
          /\ Running = {} /\ Queued = {}
          /\ Len(layers) = fallback.i
          /\ \A i \in 1..Len(layers) :
                layers[i].run = "seq" /\ layers[i].index = i - 1
    /\ (Done /\ endpoint \in YearEndpoints /\ response.status = 200 /\ PoolRaised) =>
          /\ Len(response.results) = NumMonths
          /\ \A i \in 1..Len(response.results) :
                response.results[i].run = "seq" /\ response.results[i].index = i - 1

\* A 200 response of the fallback, after the pool had returned the result of
\* month 0 and raised for month 1.
C9_Witness ==
    /\ Done
    /\ response.status = 200
    /\ futures[0].state = "done" /\ ~futures[0].result.raised
    /\ futures[1].state = "done" /\ futures[1].result.raised
    /\ response.results[1].run = "seq"

\* C10: in the Amazon endpoints a failing tile fetch never fails the request:
\* the tile is replaced by a placeholder, the month has its entry over all
\* the tiles, and unless getMapId raises the response is 200 with 12 layers.
C10_TileFailureIsAbsorbed ==
    endpoint \in AmazonEndpoints =>
        /\ \A r \in ResultsHeld :
              /\ r.placeholders = AnswerTo(r).failed_tiles
              /\ r.entry.tiles_processed = Len(grid_tiles)
              /\ r.raised = AnswerTo(r).raises
        /\ (Done /\ \A m \in Months : ~service.seq[m].raises) =>
              /\ response.status = 200
              /\ Len(Body.monthly_layers) = 12
        /\ response.status = 200 =>
              /\ Len(Body.monthly_layers) = 12
              /\ \A i \in 1..12 :
                    Body.monthly_layers[i].tiles_processed = Len(grid_tiles)

\* A 200 response one of whose months had a single failing tile fetch and
\* another every tile fetch failing.
C10_Witness ==
    /\ endpoint \in AmazonEndpoints
    /\ response.status = 200
    /\ \E i \in 1..Len(response.results) : response.results[i].placeholders = {1}
    /\ \E i \in 1..Len(response.results) : response.results[i].placeholders = Tiles

\* The process_month(m) calls that have returned or raised so far: the
\* pool's task m once it is done, and the fallback's call once its loop has
\* passed m.
CallsMade(m) ==
    (IF futures[m].state = "done" THEN 1 ELSE 0) + (IF fallback.i > m THEN 1 ELSE 0)

RECURSIVE SumFetches(_, _)
SumFetches(calls, t) ==
    IF calls = << >> THEN 0 ELSE Head(calls)[t] + SumFetches(Tail(calls), t)

\* The process_tile_month calls made so far for tile t and month m.
Fetched(m, t) == SumFetches(remote.fetches[m], t)

\* The original statement of C11: when the request of an Amazon endpoint has
\* ended, every (tile, month) pair has been fetched exactly once.
C11_OneFetchPerPair ==
    (Done /\ endpoint \in AmazonEndpoints) =>
        \A m \in Months : \A t \in Tiles : Fetched(m, t) = 1

\* C11 (amended): every process_month call of an Amazon endpoint fetches each
\* tile exactly once, so a (tile, month) pair has been fetched once per call
\* made for the month: never more than twice, exactly once for every pair
\* of a 200 response built by the pool, and twice for every pair of a 200
\* response built by the fallback after the pool ran.
C11_OneFetchPerPairAndCall ==
    endpoint \in AmazonEndpoints =>
        /\ \A m \in Months : \A t \in Tiles :
              /\ Fetched(m, t) = CallsMade(m)
              /\ Fetched(m, t) <= 2
        /\ response.status = 200 =>
              \A m \in Months : \A t \in Tiles :
                 Fetched(m, t) =
                    (IF response.results[m + 1].run = "pool" THEN 1
                     ELSE IF futures[m].state = "done" THEN 2 ELSE 1)

\* A 200 response of an Amazon endpoint built by the fallback after the
\* pool had run every task: every pair has been fetched twice.
C11_Witness ==
    /\ endpoint \in AmazonEndpoints
    /\ response.status = 200
    /\ response.results[1].run = "seq"
    /\ \A m \in Months : \A t \in Tiles : Fetched(m, t) = 2

\* total_layers of an Amazon response, total_months of a custom one.
DeclaredCount == IF endpoint \in AmazonEndpoints THEN Body.total_layers ELSE Body.total_months

\* C12: a 200 response of a 12-month endpoint has success = true and a
\* per-month list of exactly 12 entries, the count it declares, whether the
\* pool or the fallback built it.
C12_TwelveEntries ==
    (response.status = 200 /\ endpoint \in YearEndpoints) =>
        /\ Body.success = TRUE
        /\ Len(MonthlyEntries) = DeclaredCount
        /\ Len(MonthlyEntries) = 12
        /\ Len(response.results) = 12

\* A 200 response the fallback built after the pool had collected the
\* result of month 0 and then raised.
C12_Witness ==
    /\ response.status = 200
    /\ endpoint \in CustomEndpoints
    /\ futures[0].state = "done" /\ ~futures[0].result.raised
    /\ PoolRaised
    /\ Len(MonthlyEntries) = 12
    /\ response.results[12].run = "seq"

\* process_month(m) raised in the pool and raises again in the fallback.
RaisesTwice(m) ==
    /\ futures[m].state = "done" /\ futures[m].result.raised
    /\ process_month(endpoint, m, now, service.seq[m], "seq").raised

\* C13: when process_month(i) raised in the pool and raises again in the
\* fallback, the request ends in a 500 response whose body is only
\* {success: false, error}: the months that succeeded are not returned.
C13_DoubleRaiseIs500 ==
    (Done /\ endpoint \in YearEndpoints /\ \E m \in Months : RaisesTwice(m)) =>
        /\ response.status = 500
        /\ Body.success = FALSE
        /\ DOMAIN Body = {"success", "error"}
        /\ response.results = << >>

\* A 500 response after month 1 raised in both runs, the fallback having
\* built month 0 before.
C13_Witness ==
    /\ Done
    /\ endpoint \in YearEndpoints
    /\ RaisesTwice(1)
    /\ response.status = 500
    /\ Len(layers) = 1 /\ layers[1].run = "seq" /\ ~layers[1].raised

\* C14: the fallback never overlaps the pool: from the first sequential
\* process_month call on, every task submitted to the pool has run, so no
\* worker's process_month executes while a fallback call does.
C14_FallbackAfterPool ==
    /\ ~(fallback.running /\ Running # {})
    /\ (fallback.running \/ fallback.i > 0) =>
          /\ Running = {} /\ Queued = {}
          /\ PoolRaised => (\A m \in Months : futures[m].state \in {"done", "none"})

\* A fallback call executes after a result() raised while tasks were still
\* queued: these have all run.
C14_Witness ==
    /\ fallback.running
    /\ remote.queued_at_raise
    /\ \A m \in Months : futures[m].state = "done"

\* C15: in the composite of a month every pixel of a placeholder tile is
\* masked, and the mask goes by value: a pixel that has a value in the
\* mosaic is masked exactly when that value is 0, in a placeholder and in a
\* fetched tile alike; the other pixels keep their values.
C15_ZeroPixelsMasked ==
    mosaic.built =>
        \A t \in Tiles : \A k \in PixelIds :
            LET c == mosaic.composite[t][k]
                d == MediansOf(mosaic.drawn)[t][k]
                failed == t \in mosaic.outcome.failed_tiles
            IN  /\ failed => c.masked
                /\ c.masked <=> (failed \/ d.masked \/ d.v = 0)
                /\ ~c.masked => c = d

\* A composite with a placeholder tile, masked, and a fetched tile one of
\* whose pixels holds 0 and is masked while the other holds a negative
\* value and is kept.
C15_Witness ==
    /\ mosaic.built
    /\ mosaic.outcome.failed_tiles = {1}
    /\ mosaic.composite[1][1].masked
    /\ mosaic.drawn[Len(grid_tiles)][1] = Valued(0)
    /\ mosaic.composite[Len(grid_tiles)][1].masked
    /\ mosaic.composite[Len(grid_tiles)][2] = Valued(-5)

\* The tiles come column by column from west to east, and from south to
\* north within a column.
GridOrdered(a, T) ==
    /\ Len(T) > 0 => (West(T[1]) = a.min_lon /\ South(T[1]) = a.min_lat)
    /\ \A i \in 1..(Len(T) - 1) :
          \/ /\ West(T[i + 1]) = West(T[i])
             /\ South(T[i + 1]) = South(T[i]) + a.tile_size
          \/ /\ West(T[i + 1]) = West(T[i]) + a.tile_size
             /\ South(T[i + 1]) = a.min_lat
             /\ North(T[i]) >= a.max_lat

\* The interiors of any two tiles are disjoint.
GridDisjoint(T) ==
    \A i \in 1..Len(T), j \in 1..Len(T) :
        i < j => \/ East(T[i]) <= West(T[j]) \/ East(T[j]) <= West(T[i])
                 \/ North(T[i]) <= South(T[j]) \/ North(T[j]) <= South(T[i])

\* The Amazon box gives 8 x 6 = 48 tiles, the number the response reports.
GridOfAmazon(a, T) ==
    a = AmazonArgs =>
        /\ Len(T) = 48
        /\ T = grid_tiles
        /\ amazon_response("AmazonNDVIAPI", << >>).processing_info.grid_tiles = 48

\* The original statement of C16: the tiles come in this order, have
\* disjoint interiors, and none extends outside the bounding box.
C16_TilesInsideBox ==
    grid.called =>
        LET a == grid.args
            T == grid.tiles
        IN  /\ GridOrdered(a, T)
            /\ GridDisjoint(T)
            /\ \A i \in 1..Len(T) :
                  /\ a.min_lon <= West(T[i]) /\ East(T[i]) <= a.max_lon
                  /\ a.min_lat <= South(T[i]) /\ North(T[i]) <= a.max_lat
            /\ GridOfAmazon(a, T)

\* C16 (amended): the tiles come longitude ascending in the outer loop and
\* latitude ascending in the inner one, their interiors are disjoint, and
\* each starts inside the box; a tile extends beyond max_lon (max_lat) only
\* by less than tile_size and only when tile_size does not divide the
\* width (height) of the box. The Amazon box gives 48 tiles.
C16_TilesOrderedDisjoint ==
    grid.called =>
        LET a == grid.args
            T == grid.tiles
        IN  /\ GridOrdered(a, T)
            /\ GridDisjoint(T)
            /\ \A i \in 1..Len(T) :
                  /\ a.min_lon <= West(T[i]) /\ West(T[i]) < a.max_lon
                  /\ a.min_lat <= South(T[i]) /\ South(T[i]) < a.max_lat
                  /\ (a.max_lon - a.min_lon) % a.tile_size = 0 => East(T[i]) <= a.max_lon
                  /\ (a.max_lat - a.min_lat) % a.tile_size = 0 => North(T[i]) <= a.max_lat
            /\ GridOfAmazon(a, T)

\* A grid of several columns and rows whose last column and last row
\* extend beyond the box.
C16_Witness ==
    /\ grid.called
    /\ Len(grid.tiles) >= 4
    /\ \E i \in 1..Len(grid.tiles) : West(grid.tiles[i]) # grid.args.min_lon
    /\ \E i \in 1..Len(grid.tiles) : East(grid.tiles[i]) > grid.args.max_lon
    /\ \E i \in 1..Len(grid.tiles) : North(grid.tiles[i]) > grid.args.max_lat

PointValues ==
    IF endpoint = "PointNDVIMonthlyAPI" THEN Body.all_ndvi_values ELSE Body.all_lst_values

\* C17: in the point endpoints, once a remote query has been issued (the
\* input has passed validation), the request ends in a 200 response
\* whichever query raised: a raising sampling query gives a null median with
\* data_available = false, a raising getRegion query an empty value list.
C17_PointQueryFailureIs200 ==
    (Done /\ endpoint \in PointEndpoints /\ remote.queries > 0) =>
        /\ response.status = 200
        /\ (local.sampled.size_raises \/ local.sampled.value_raises) =>
              (IsNone(PointMedian) /\ Body.data_available = FALSE)
        /\ response.results[1].raises => PointValues = << >>

\* The calendar months counted from year 0: consecutive labels differ by 1.
MonthNumber(label) == 12 * label[1] + label[2] - 1

\* The month label of the task of index i.
TaskLabel(i) == MonthLabel(dates.intervals[i + 1].month_start)

\* C18: the labels of the tasks are consecutive calendar months, the first
\* the month of now minus 12 months and the twelfth the month before the
\* month of now, which is the end label of time_period and no task's label.
C18_LabelsAreTrailingMonths ==
    dates.pc = "tasks" =>
        LET n == Len(dates.intervals)
            this == MonthNumber(MonthLabel(dates.now))
        IN  /\ \A i \in 0..(n - 1) :
                  /\ TaskLabel(i)[2] \in 1..12
                  /\ MonthNumber(TaskLabel(i)) = this - 12 + i
                  /\ TaskLabel(i) # MonthLabel(dates.now)
            /\ \A i \in 0..(n - 1), j \in 0..(n - 1) :
                  i # j => TaskLabel(i) # TaskLabel(j)
            /\ MonthLabel(dates.end_date) = MonthLabel(dates.now)
            /\ n >= 1 => TaskLabel(0) = MonthLabel(dates.start_date)
            /\ n = NumMonths => MonthNumber(TaskLabel(NumMonths - 1)) = this - 1

\* The twelve tasks of a now on the 31st, whose day the window clips.
C18_Witness ==
    /\ dates.pc = "tasks"
    /\ Len(dates.intervals) = NumMonths
    /\ dates.now[3] = 31
    /\ \E i \in 1..NumMonths : dates.intervals[i].month_start[3] < 31

\* The handler has ended exactly when it has responded, and the response is
\* of status 200, 400 or 500 with the success flag true exactly for 200.
RespondedWell ==
    /\ endpoint \in Endpoints
    /\ Done <=> response # NoResponse
    /\ Done => /\ response.status \in {200, 400, 500}
               /\ Body.success = TRUE <=> response.status = 200

\* C19: a request to any of the six endpoints, every remote call returning
\* or raising, ends with one response, of status 200, 400 or 500, whose
\* success flag is true exactly for 200: no exception leaves the handler,
\* the handler can go on as long as it has not responded, and it does
\* nothing more once it has.
C19_OneResponse ==
    /\ RespondedWell
    /\ Done <=> ~ENABLED Next

\* A request to an Amazon endpoint has ended in a 500 response: getMapId
\* raised in the pool and again in the fallback.
C19_Witness ==
    /\ Done
    /\ endpoint \in AmazonEndpoints
    /\ response.status = 500
    /\ \E m \in Months : futures[m].state = "done" /\ futures[m].result.raised

====
